---------------------------- MODULE Spec2Model ----------------------------
(***************************************************************************)
(* Model of soramimi/ProcessExample: command(), which runs a command line  *)
(* and returns its captured standard output (src/command.cpp).             *)
(*                                                                         *)
(*   - the tokenizer of the argv-path command() (command.cpp 210-262),     *)
(*     one loop iteration per step (ScanStep);                             *)
(*   - the fork-path launcher _command() (command.cpp 136-190): the        *)
(*     descriptor table of the calling process, the pipes, the stdio       *)
(*     buffer of stdout that fork() duplicates, and the forked children;   *)
(*   - the CreateProcess-path command() (command.cpp 35-111).              *)
(*                                                                         *)
(* A string is a sequence of one-character strings.                        *)
(***************************************************************************)
EXTENDS Integers, Sequences, FiniteSets, TLC

(***************************** bounds **************************************)
\* longest command string the tokenizer specification enumerates
MaxLen == 5
\* invocations of command() in one run of the calling process
MaxCalls == 2
\* highest descriptor (handle) number of a process: its table has MaxFd + 1
\* slots, and pipe() fails when fewer than two are free
MaxFd == 10
\* most bytes a child program writes
MaxOut == 3
\* most bytes one read() returns; stands for sizeof(buffer) - 1
ReadMax == 2
\* most bytes the caller leaves unflushed in its stdout buffer
MaxBuf == 1
\* longest whitespace-only command string C2 enumerates
MaxBlank == 3

(***************************************************************************)
(*                             TOKENIZER                                   *)
(***************************************************************************)
\* the characters command strings are built from: two letters, two kinds of
\* whitespace and the double quote
Alphabet == {"a", "b", " ", "\t", "\""}

\* the end-of-string value: c stays 0 when ptr has reached end
NUL == "NUL"

DQUOTE == "\""

\* mutant of IsSpace: only the blank is taken for whitespace
IsSpace_OnlyBlank(c) == c = " "

\* isspace() in the "C" locale
IsSpace(c) == c \in {" ", "\t", "\n", "\r", "\f"}

\* all strings over the characters `chars` of length at most n
RECURSIVE StringsOver(_, _)
StringsOver(chars, n) ==
    IF n = 0 THEN {<<>>}
    ELSE LET shorter == StringsOver(chars, n - 1)
         IN  shorter \cup {Append(x, ch) : x \in {y \in shorter : Len(y) = n - 1},
                                           ch \in chars}

\* the locals of command() at the top of its loop: begin..end is cmd, ptr and
\* left are offsets from begin, quote is 0 or the quote character
ScanInit(cmd) ==
    [cmd |-> cmd, ptr |-> 0, left |-> 0, quote |-> NUL, vec |-> <<>>,
     done |-> FALSE]

\* lines 221-224: the character under ptr, 0 at the end of the string
CharAt(cmd, ptr) == IF ptr < Len(cmd) THEN cmd[ptr + 1] ELSE NUL

\* mutant of HasOuterQuotes: the test left + 1 < ptr is missing, so a lone
\* double quote counts as enclosed in quotes
HasOuterQuotes_AnyLength(cmd, left, ptr) ==
    left < ptr /\ cmd[left + 1] = DQUOTE /\ cmd[ptr] = DQUOTE

\* line 230: the span left..ptr is longer than one character and both starts
\* and ends with a double quote
HasOuterQuotes(cmd, left, ptr) ==
    left + 1 < ptr /\ cmd[left + 1] = DQUOTE /\ cmd[ptr] = DQUOTE

\* mutant of EmitToken: the test left < ptr is missing, so an empty span is
\* emitted too
EmitToken_KeepsEmpty(vec, cmd, left, ptr) ==
    IF HasOuterQuotes(cmd, left, ptr)
    THEN Append(vec, SubSeq(cmd, left + 2, ptr - 1))
    ELSE Append(vec, SubSeq(cmd, left + 1, ptr))

\* mutant of EmitToken: a span that opens a quote and does not close it is
\* dropped
EmitToken_DropsUnterminated(vec, cmd, left, ptr) ==
    IF left < ptr
    THEN IF HasOuterQuotes(cmd, left, ptr)
         THEN Append(vec, SubSeq(cmd, left + 2, ptr - 1))
         ELSE IF cmd[left + 1] = DQUOTE THEN vec
         ELSE Append(vec, SubSeq(cmd, left + 1, ptr))
    ELSE vec

\* lines 228-235: the span left..ptr is emitted when it is not empty, without
\* its outer quotes when it has them
EmitToken(vec, cmd, left, ptr) ==
    IF left < ptr
    THEN IF HasOuterQuotes(cmd, left, ptr)
         THEN Append(vec, SubSeq(cmd, left + 2, ptr - 1))
         ELSE Append(vec, SubSeq(cmd, left + 1, ptr))
    ELSE vec

\* lines 228-233: ptr after the emission (ptr-- when the quotes were removed)
PtrAfterEmit(cmd, left, ptr) ==
    IF left < ptr /\ HasOuterQuotes(cmd, left, ptr) THEN ptr - 1 ELSE ptr

\* lines 239-246: the quote flag after a character that is no delimiter. The
\* test for the double quote comes first, so a double quote always takes the
\* first branch and the second one (c == quote) resets nothing.
QuoteAfter(quote, c) ==
    IF c = DQUOTE THEN c
    ELSE IF c = quote THEN NUL
    ELSE quote

\* lines 220-250: one iteration of the scan loop
ScanStep(s) ==
    LET c == CharAt(s.cmd, s.ptr)
    IN  IF c = NUL \/ (s.quote = NUL /\ IsSpace(c))
        THEN LET p == PtrAfterEmit(s.cmd, s.left, s.ptr)
             IN  [s EXCEPT !.vec  = EmitToken(s.vec, s.cmd, s.left, s.ptr),
                           !.done = (c = NUL),
                           !.ptr  = IF c = NUL THEN p ELSE p + 1,
                           !.left = IF c = NUL
                                    THEN IF p # s.ptr THEN s.left + 1 ELSE s.left
                                    ELSE p + 1]
        ELSE [s EXCEPT !.quote = QuoteAfter(s.quote, c), !.ptr = s.ptr + 1]

\* lines 212-250: the loop run to its break
RECURSIVE ScanAll(_)
ScanAll(s) == IF s.done THEN s ELSE ScanAll(ScanStep(s))

Tokenize(cmd) == ScanAll(ScanInit(cmd)).vec


(***************************************************************************)
(*                     PROCESSES, DESCRIPTORS, PIPES                       *)
(***************************************************************************)
\* the threads of a calling process that invokes command() from one thread,
\* and from two threads at once
OneThread == {1}
TwoThreads == {1, 2}

\* what a descriptor-table slot refers to: nothing, one of the files the
\* process started with, an end of pipe k, or (CreateProcess path) the
\* process and thread handles of child p
NoFile == 0
StdFile == 1
RD(k) == 4 * k
WR(k) == 4 * k + 1
PROC(p) == 4 * p + 2
THR(p) == 4 * p + 3
IsWR(d) == d >= 4 /\ d % 4 = 1
IsRD(d) == d >= 4 /\ d % 4 = 0
PipeOf(d) == d \div 4

STDOUT_FILENO == 1

Fds == 0 .. MaxFd

NEWLINE == "\n"

\* the bytes a child program writes: a prefix of OutBytes, so that every
\* byte of an output is different from the others
OutBytes == <<"x", "y", "z", "w", "v", "u">>
Outputs == {SubSeq(OutBytes, 1, n) : n \in 0 .. MaxOut}

\* the command strings the callers pass: empty, only whitespace, and a
\* program name between whitespace
CmdStrings == {<<>>, <<" ", "\t">>, <<" ", "a", " ">>}

FreeFds(tab) == {fd \in Fds : tab[fd] = NoFile}

\* the lowest unused descriptor, which is the one the kernel hands out
LowestFree(tab) == CHOOSE fd \in FreeFds(tab) : \A g \in FreeFds(tab) : fd <= g

\* close(fd): the slot is freed; closing a descriptor that is not open fails
\* with EBADF and changes nothing
CloseFd(tab, fd) == IF fd \in Fds THEN [tab EXCEPT ![fd] = NoFile] ELSE tab

\* dup2(oldfd, newfd): newfd refers to what oldfd refers to; nothing happens
\* when oldfd is not open or when both are the same descriptor
Dup2(tab, oldfd, newfd) ==
    IF oldfd \notin Fds \/ tab[oldfd] = NoFile \/ oldfd = newfd THEN tab
    ELSE [tab EXCEPT ![newfd] = tab[oldfd]]

\* write(fd, data) by a process with table tab: the bytes reach a pipe when
\* fd is the write end of one (bufs are the pipes' contents); bytes written
\* to another file are not followed, and a write to a descriptor that is
\* not open for writing fails
WriteFd(tab, fd, data, bufs) ==
    IF fd \in Fds /\ IsWR(tab[fd])
    THEN [bufs EXCEPT ![PipeOf(tab[fd])] = @ \o data]
    ELSE bufs

WriteSucceeds(tab, fd) == fd \in Fds /\ (IsWR(tab[fd]) \/ tab[fd] = StdFile)

ClosedTable == [fd \in Fds |-> NoFile]

\* std::optional<std::string>
NullOpt == [present |-> FALSE, text |-> <<>>]
Some(s) == [present |-> TRUE, text |-> s]

VARIABLES
    tk,          \* the tokenizer's locals (tokenizer specification)
    platform,    \* "posix" (fork path) or "win" (CreateProcess path)
    alive,       \* the calling process has not called exit()
    fdtab,       \* descriptor (handle) table of the calling process
    inherit,     \* CreateProcess path: the inheritable handles
    stdoutMode,  \* buffering of the caller's stdout: "full" or "line"
    outbuf,      \* unflushed bytes in the caller's stdout buffer
    fds0,        \* the descriptors open before the first invocation
    pipebuf,     \* pipebuf[k]: the bytes in pipe k, written and not yet read
    th,          \* th[t]: the locals of thread t's invocation of command()
    child,       \* child[p]: the child process with pid p
    log          \* the invocations that have returned, in order

vars == <<tk, platform, alive, fdtab, inherit, stdoutMode, outbuf, fds0,
          pipebuf, th, child, log>>

procVars == <<platform, alive, fdtab, inherit, stdoutMode, outbuf, fds0,
              pipebuf, th, child, log>>

\* the locals of command() and _command() before the call
ThreadIdle ==
    [pc |-> "idle", cmd |-> <<>>, argv |-> <<>>, rfd |-> -1, wfd |-> -1,
     pipe |-> 0, pid |-> 0, ret |-> <<>>, closed |-> <<>>, reaped |-> 0,
     hproc |-> -1, hthr |-> -1]

\* the calling process as it starts: descriptors 0, 1 and 2 open, except
\* those of 0 and 1 in `closed`, which the caller has closed
StdTable(closed) ==
    [fd \in Fds |-> IF fd \in {0, 1, 2} \ closed THEN StdFile ELSE NoFile]

ProcInit(plat, mode, closed, threads) ==
    /\ platform = plat
    /\ alive = TRUE
    /\ fdtab = StdTable(closed)
    /\ inherit = {}
    /\ stdoutMode = mode
    /\ outbuf = <<>>
    /\ fds0 = Fds \ FreeFds(StdTable(closed))
    /\ pipebuf = <<>>
    /\ th = [t \in threads |-> ThreadIdle]
    /\ child = <<>>
    /\ log = <<>>

\* invocations started so far: those returned and those in progress
Threads == DOMAIN th

Started == Len(log) + Cardinality({t \in Threads : th[t].pc # "idle"})

\* a write end of pipe k is open in the calling process or in a child
WriteEndOpen(k) ==
    \/ \E fd \in Fds : fdtab[fd] = WR(k)
    \/ \E p \in 1 .. Len(child) : \E fd \in Fds : child[p].fdtab[fd] = WR(k)

\* the record of a returned invocation: its outcome, and what it did (l are
\* the invocation's locals at the return)
LogEntry(t, l, result) ==
    [thr |-> t, cmd |-> l.cmd, argv |-> l.argv, result |-> result,
     pipe |-> l.pipe, rfd |-> l.rfd, wfd |-> l.wfd, pid |-> l.pid,
     closed |-> l.closed, reaped |-> l.reaped,
     hproc |-> l.hproc, hthr |-> l.hthr,
     childpc |-> IF l.pid = 0 THEN "none" ELSE child[l.pid].pc,
     bufAtFork |-> IF l.pid = 0 THEN <<>> ELSE child[l.pid].buf0]

\* return result: the invocation is logged and its locals are gone
ReturnFrom(t, l, result) ==
    /\ log' = Append(log, LogEntry(t, l, result))
    /\ th' = [th EXCEPT ![t] = ThreadIdle]

\* pipe(): the two lowest unused descriptors become the read end and the
\* write end of a new pipe k
PipeTable(tab, k) ==
    LET r == LowestFree(tab)
        t1 == [tab EXCEPT ![r] = RD(k)]
        w == LowestFree(t1)
    IN  [tab |-> [t1 EXCEPT ![w] = WR(k)], r |-> r, w |-> w]

Min(a, b) == IF a <= b THEN a ELSE b

(***************************************************************************)
(*                 FORK PATH: command() and _command()                     *)
(***************************************************************************)
\* line 253: the command has arguments
HasArguments(vec) == Len(vec) > 0

\* lines 210-262, command(): the string is tokenized; with no token the
\* call returns nullopt at once, otherwise _command(argv) starts
Call(t, cmd) ==
    /\ alive /\ platform = "posix"
    /\ th[t].pc = "idle"
    /\ Started < MaxCalls
    /\ LET vec == Tokenize(cmd)
       IN  IF HasArguments(vec)
           THEN /\ th' = [th EXCEPT ![t] = [ThreadIdle EXCEPT !.pc = "pipe",
                                               !.cmd = cmd, !.argv = vec]]
                /\ UNCHANGED log
           ELSE ReturnFrom(t, [ThreadIdle EXCEPT !.cmd = cmd, !.argv = vec],
                           NullOpt)
    /\ UNCHANGED <<tk, platform, alive, fdtab, inherit, stdoutMode, outbuf,
                   fds0, pipebuf, child>>

\* lines 146-149: pipe(pipefd)
PipeOk(t) ==
    /\ alive /\ th[t].pc = "pipe"
    /\ Cardinality(FreeFds(fdtab)) >= 2
    /\ LET k == Len(pipebuf) + 1
           pt == PipeTable(fdtab, k)
       IN  /\ fdtab' = pt.tab
           /\ pipebuf' = Append(pipebuf, <<>>)
           /\ th' = [th EXCEPT ![t].pc = "fork", ![t].pipe = k,
                               ![t].rfd = pt.r, ![t].wfd = pt.w]
    /\ UNCHANGED <<tk, platform, alive, inherit, stdoutMode, outbuf, fds0,
                   child, log>>

\* mutant of PipeFail: the failure is returned to the caller as nullopt
PipeFail_ReturnsNullOpt(t) ==
    /\ alive /\ th[t].pc = "pipe"
    /\ ReturnFrom(t, th[t], NullOpt)
    /\ UNCHANGED <<tk, platform, alive, fdtab, inherit, stdoutMode, outbuf,
                   fds0, pipebuf, child>>

\* lines 146-149: pipe() returned -1; perror and exit(EXIT_FAILURE) end the
\* calling process
PipeFail(t) ==
    /\ alive /\ th[t].pc = "pipe"
    /\ alive' = FALSE
    /\ th' = [th EXCEPT ![t].pc = "exit_failure"]
    /\ UNCHANGED <<tk, platform, fdtab, inherit, stdoutMode, outbuf, fds0,
                   pipebuf, child, log>>

\* <stdlib.h>
EXIT_FAILURE == 1

\* the child right after fork(): a copy of the caller's descriptor table and
\* of its stdout buffer, about to run line 160; `status` is the status this
\* program's code exits with, once it has
NewChild(t, tab, pc) ==
    [pc |-> pc, parent |-> t, fdtab |-> tab, buf |-> outbuf, buf0 |-> outbuf,
     mode |-> stdoutMode, argv |-> th[t].argv, rfd |-> th[t].rfd,
     wfd |-> th[t].wfd, pipe |-> th[t].pipe, outfd |-> STDOUT_FILENO,
     execOk |-> FALSE, todo |-> <<>>, wrote |-> <<>>, status |-> <<>>]

\* lines 152-158: fork() returned the child's pid to the parent
ForkOk(t) ==
    /\ alive /\ th[t].pc = "fork"
    /\ child' = Append(child, NewChild(t, fdtab, "puts"))
    /\ th' = [th EXCEPT ![t].pc = "close_w", ![t].pid = Len(child) + 1]
    /\ UNCHANGED <<tk, platform, alive, fdtab, inherit, stdoutMode, outbuf,
                   fds0, pipebuf, log>>

\* mutant of ForkFail: the failure is returned to the caller as nullopt
ForkFail_ReturnsNullOpt(t) ==
    /\ alive /\ th[t].pc = "fork"
    /\ ReturnFrom(t, th[t], NullOpt)
    /\ UNCHANGED <<tk, platform, alive, fdtab, inherit, stdoutMode, outbuf,
                   fds0, pipebuf, child>>

\* lines 152-156: fork() returned -1; perror and exit(EXIT_FAILURE) end the
\* calling process
ForkFail(t) ==
    /\ alive /\ th[t].pc = "fork"
    /\ alive' = FALSE
    /\ th' = [th EXCEPT ![t].pc = "exit_failure"]
    /\ UNCHANGED <<tk, platform, fdtab, inherit, stdoutMode, outbuf, fds0,
                   pipebuf, child, log>>

\* mutant of ParentCloseWrite: the parent keeps its write end open
ParentCloseWrite_Skipped(t) ==
    /\ alive /\ th[t].pc = "close_w"
    /\ th' = [th EXCEPT ![t].pc = "read"]
    /\ UNCHANGED <<tk, platform, alive, fdtab, inherit, stdoutMode, outbuf,
                   fds0, pipebuf, child, log>>

\* line 177: close(pipefd[1]) in the parent
ParentCloseWrite(t) ==
    /\ alive /\ th[t].pc = "close_w"
    /\ fdtab' = CloseFd(fdtab, th[t].wfd)
    /\ th' = [th EXCEPT ![t].pc = "read",
                        ![t].closed = Append(@, th[t].wfd)]
    /\ UNCHANGED <<tk, platform, alive, inherit, stdoutMode, outbuf, fds0,
                   pipebuf, child, log>>

\* mutant of ReadOutcome: a read of an empty pipe reports the end of the
\* stream even while a write end is open
ReadOutcome_NeverBlocks(fd) ==
    IF fd \notin Fds \/ ~IsRD(fdtab[fd]) THEN "error"
    ELSE IF pipebuf[PipeOf(fdtab[fd])] # <<>> THEN "data"
    ELSE "eof"

\* what read(fd, buffer, ReadMax) returns in the calling process: "data"
\* with up to ReadMax bytes that are in the pipe, "eof" when the pipe is
\* empty and no write end of it is open, "error" when fd is no read end;
\* "block" while the pipe is empty and a write end is open
ReadOutcome(fd) ==
    IF fd \notin Fds \/ ~IsRD(fdtab[fd]) THEN "error"
    ELSE IF pipebuf[PipeOf(fdtab[fd])] # <<>> THEN "data"
    ELSE IF WriteEndOpen(PipeOf(fdtab[fd])) THEN "block"
    ELSE "eof"

\* lines 180-183: one read() of the loop with nbytes > 0; the chunk is
\* appended to ret
ReadChunk(t, pcs) ==
    /\ alive /\ th[t].pc = pcs
    /\ ReadOutcome(th[t].rfd) = "data"
    /\ LET k == PipeOf(fdtab[th[t].rfd])
           n == Min(Len(pipebuf[k]), ReadMax)
       IN  /\ th' = [th EXCEPT ![t].ret = @ \o SubSeq(pipebuf[k], 1, n)]
           /\ pipebuf' = [pipebuf EXCEPT ![k] = SubSeq(@, n + 1, Len(@))]
    /\ UNCHANGED <<tk, platform, alive, fdtab, inherit, stdoutMode, outbuf,
                   fds0, child, log>>

ParentRead(t) == ReadChunk(t, "read")

\* line 180: the read() that returns 0 (or -1) and ends the loop
ParentReadEnd(t) ==
    /\ alive /\ th[t].pc = "read"
    /\ ReadOutcome(th[t].rfd) \in {"eof", "error"}
    /\ th' = [th EXCEPT ![t].pc = "close_r"]
    /\ UNCHANGED <<tk, platform, alive, fdtab, inherit, stdoutMode, outbuf,
                   fds0, pipebuf, child, log>>

\* mutant of ParentCloseRead: the read end is left open
ParentCloseRead_Skipped(t) ==
    /\ alive /\ th[t].pc = "close_r"
    /\ th' = [th EXCEPT ![t].pc = "wait"]
    /\ UNCHANGED <<tk, platform, alive, fdtab, inherit, stdoutMode, outbuf,
                   fds0, pipebuf, child, log>>

\* line 185: close(pipefd[0])
ParentCloseRead(t) ==
    /\ alive /\ th[t].pc = "close_r"
    /\ fdtab' = CloseFd(fdtab, th[t].rfd)
    /\ th' = [th EXCEPT ![t].pc = "wait",
                        ![t].closed = Append(@, th[t].rfd)]
    /\ UNCHANGED <<tk, platform, alive, inherit, stdoutMode, outbuf, fds0,
                   pipebuf, child, log>>

\* the children of the calling process that no wait() has reaped yet
Unreaped == {p \in 1 .. Len(child) : child[p].pc # "reaped"}

\* the children wait(NULL) called by thread t may return: any terminated
\* child of the process, whichever invocation forked it
Waitable(t) == {p \in Unreaped : child[p].pc = "zombie"}

\* mutant of ParentWait: the parent does not wait for a child
ParentWait_Skipped(t) ==
    /\ alive /\ th[t].pc = "wait"
    /\ th' = [th EXCEPT ![t].pc = "return"]
    /\ UNCHANGED <<tk, platform, alive, fdtab, inherit, stdoutMode, outbuf,
                   fds0, pipebuf, child, log>>

\* line 186: wait(NULL) returns the pid of a terminated child, which is
\* reaped; it blocks while children exist and none has terminated, and
\* fails at once (ECHILD) when the process has no child to wait for
ParentWait(t) ==
    /\ alive /\ th[t].pc = "wait"
    /\ IF Unreaped = {}
       THEN /\ th' = [th EXCEPT ![t].pc = "return", ![t].reaped = -1]
            /\ UNCHANGED child
       ELSE \E p \in Waitable(t) :
               /\ child' = [child EXCEPT ![p].pc = "reaped"]
               /\ th' = [th EXCEPT ![t].pc = "return", ![t].reaped = p]
    /\ UNCHANGED <<tk, platform, alive, fdtab, inherit, stdoutMode, outbuf,
                   fds0, pipebuf, log>>

\* line 189: return ret
Return(t) ==
    /\ alive /\ th[t].pc = "return"
    /\ ReturnFrom(t, th[t], Some(th[t].ret))
    /\ UNCHANGED <<tk, platform, alive, fdtab, inherit, stdoutMode, outbuf,
                   fds0, pipebuf, child>>

\* src/main.cpp 17, 19: the caller prints to its stdout between invocations;
\* a byte that completes no line stays in the stdout buffer
CallerPrintf(t) ==
    /\ alive /\ platform = "posix"
    /\ th[t].pc = "idle"
    /\ Len(outbuf) < MaxBuf
    /\ outbuf' = Append(outbuf, "p")
    /\ UNCHANGED <<tk, platform, alive, fdtab, inherit, stdoutMode, fds0,
                   pipebuf, th, child, log>>

(***************************************************************************)
(*                    FORK PATH: the child process                         *)
(***************************************************************************)
\* a write of `data` to stdout through stdio: a line-buffered stream is
\* flushed as soon as a newline is written, a fully buffered one keeps the
\* bytes. `flush` are the bytes that go to descriptor 1 now.
StdioPut(mode, buf, data) ==
    IF mode = "line" /\ \E i \in 1 .. Len(data) : data[i] = NEWLINE
    THEN [buf |-> <<>>, flush |-> buf \o data]
    ELSE [buf |-> buf \o data, flush |-> <<>>]

\* line 160: puts(argv[0]), before stdout is redirected
ChildPuts(p) ==
    /\ alive /\ child[p].pc = "puts"
    /\ LET c == child[p]
           put == StdioPut(c.mode, c.buf, Append(c.argv[1], NEWLINE))
       IN  /\ pipebuf' = WriteFd(c.fdtab, STDOUT_FILENO, put.flush, pipebuf)
           /\ child' = [child EXCEPT ![p].pc = "close_r", ![p].buf = put.buf]
    /\ UNCHANGED <<tk, platform, alive, fdtab, inherit, stdoutMode, outbuf,
                   fds0, th, log>>

\* line 162: close(pipefd[0]) in the child
ChildCloseRead(p) ==
    /\ alive /\ child[p].pc = "close_r"
    /\ child' = [child EXCEPT ![p].pc = "dup2",
                              ![p].fdtab = CloseFd(@, child[p].rfd)]
    /\ UNCHANGED <<tk, platform, alive, fdtab, inherit, stdoutMode, outbuf,
                   fds0, pipebuf, th, log>>

\* line 165: dup2(pipefd[1], STDOUT_FILENO)
ChildDup2(p) ==
    /\ alive /\ child[p].pc = "dup2"
    /\ child' = [child EXCEPT ![p].pc = "close_w",
                              ![p].fdtab = Dup2(@, child[p].wfd, STDOUT_FILENO)]
    /\ UNCHANGED <<tk, platform, alive, fdtab, inherit, stdoutMode, outbuf,
                   fds0, pipebuf, th, log>>

\* line 166: close(pipefd[1]) in the child
ChildCloseWrite(p) ==
    /\ alive /\ child[p].pc = "close_w"
    /\ child' = [child EXCEPT ![p].pc = "execvp",
                              ![p].fdtab = CloseFd(@, child[p].wfd)]
    /\ UNCHANGED <<tk, platform, alive, fdtab, inherit, stdoutMode, outbuf,
                   fds0, pipebuf, th, log>>

\* line 170: execvp succeeds. The child is now the requested program, which
\* will write `out` to its standard output and exit; the stdio buffer of the
\* old image is gone with it.
ChildExecOk(p, out) ==
    /\ alive /\ child[p].pc = "execvp"
    /\ child' = [child EXCEPT ![p].pc = "run", ![p].execOk = TRUE,
                              ![p].buf = <<>>, ![p].todo = out]
    /\ UNCHANGED <<tk, platform, alive, fdtab, inherit, stdoutMode, outbuf,
                   fds0, pipebuf, th, log>>

\* line 170: execvp returns, the program could not be executed
ChildExecFail(p) ==
    /\ alive /\ child[p].pc = "execvp"
    /\ child' = [child EXCEPT ![p].pc = "exec_failed"]
    /\ UNCHANGED <<tk, platform, alive, fdtab, inherit, stdoutMode, outbuf,
                   fds0, pipebuf, th, log>>

\* exit() of a process that still runs this program's code: stdio flushes
\* what is left in the stdout buffer to descriptor 1
ExitFlush(c, bufs) == WriteFd(c.fdtab, STDOUT_FILENO, c.buf, bufs)

\* mutant of ChildExitFailure: the child does not exit after the failed
\* execvp but leaves _command() by its return, and ends later
ChildExitFailure_Returns(p) ==
    /\ alive /\ child[p].pc = "exec_failed"
    /\ pipebuf' = ExitFlush(child[p], pipebuf)
    /\ child' = [child EXCEPT ![p].pc = "zombie", ![p].buf = <<>>,
                              ![p].fdtab = ClosedTable]
    /\ log' = Append(log, LogEntry(child[p].parent, th[child[p].parent],
                                   Some(<<>>)))
    /\ UNCHANGED <<tk, platform, alive, fdtab, inherit, stdoutMode, outbuf,
                   fds0, th>>

\* lines 173-174: perror("execvp") writes to stderr, exit(EXIT_FAILURE)
\* flushes stdout and ends the child, which closes all its descriptors
ChildExitFailure(p) ==
    /\ alive /\ child[p].pc = "exec_failed"
    /\ pipebuf' = ExitFlush(child[p], pipebuf)
    /\ child' = [child EXCEPT ![p].pc = "zombie", ![p].buf = <<>>,
                              ![p].fdtab = ClosedTable,
                              ![p].status = <<EXIT_FAILURE>>]
    /\ UNCHANGED <<tk, platform, alive, fdtab, inherit, stdoutMode, outbuf,
                   fds0, th, log>>

\* the program that runs in the child writes the next byte of its output to
\* its standard output; a write to a descriptor that is not open fails
ChildWrite(p) ==
    /\ alive /\ child[p].pc = "run"
    /\ child[p].todo # <<>>
    /\ LET c == child[p]
           b == <<Head(c.todo)>>
       IN  /\ pipebuf' = WriteFd(c.fdtab, c.outfd, b, pipebuf)
           /\ child' = [child EXCEPT
                  ![p].todo = Tail(@),
                  ![p].wrote = IF WriteSucceeds(c.fdtab, c.outfd)
                               THEN @ \o b ELSE @]
    /\ UNCHANGED <<tk, platform, alive, fdtab, inherit, stdoutMode, outbuf,
                   fds0, th, log>>

\* the program has written its output and exits: the kernel closes all its
\* descriptors, and the child stays a zombie until it is waited for
ChildExit(p) ==
    /\ alive /\ child[p].pc = "run"
    /\ child[p].todo = <<>>
    /\ child' = [child EXCEPT ![p].pc = "zombie", ![p].fdtab = ClosedTable]
    /\ UNCHANGED <<tk, platform, alive, fdtab, inherit, stdoutMode, outbuf,
                   fds0, pipebuf, th, log>>

(***************************************************************************)
(*                 CREATEPROCESS PATH: command()                           *)
(***************************************************************************)
\* line 35: the call; the command line is not tokenized
WCall(t, cmd) ==
    /\ alive /\ platform = "win"
    /\ th[t].pc = "idle"
    /\ Started < MaxCalls
    /\ th' = [th EXCEPT ![t] = [ThreadIdle EXCEPT !.pc = "w_pipe",
                                                  !.cmd = cmd]]
    /\ UNCHANGED <<tk, platform, alive, fdtab, inherit, stdoutMode, outbuf,
                   fds0, pipebuf, child, log>>

\* line 50: CreatePipe with bInheritHandle = TRUE: both handles inheritable
WCreatePipeOk(t) ==
    /\ alive /\ th[t].pc = "w_pipe"
    /\ Cardinality(FreeFds(fdtab)) >= 2
    /\ LET k == Len(pipebuf) + 1
           pt == PipeTable(fdtab, k)
       IN  /\ fdtab' = pt.tab
           /\ inherit' = inherit \cup {pt.r, pt.w}
           /\ pipebuf' = Append(pipebuf, <<>>)
           /\ th' = [th EXCEPT ![t].pc = "w_sethandle", ![t].pipe = k,
                               ![t].rfd = pt.r, ![t].wfd = pt.w]
    /\ UNCHANGED <<tk, platform, alive, stdoutMode, outbuf, fds0, child, log>>

\* lines 50-53: CreatePipe failed: return std::nullopt
WCreatePipeFail(t) ==
    /\ alive /\ th[t].pc = "w_pipe"
    /\ ReturnFrom(t, th[t], NullOpt)
    /\ UNCHANGED <<tk, platform, alive, fdtab, inherit, stdoutMode, outbuf,
                   fds0, pipebuf, child>>

\* line 57: SetHandleInformation(hRead, HANDLE_FLAG_INHERIT, 0)
WSetHandleInformation(t) ==
    /\ alive /\ th[t].pc = "w_sethandle"
    /\ inherit' = inherit \ {th[t].rfd}
    /\ th' = [th EXCEPT ![t].pc = "w_create"]
    /\ UNCHANGED <<tk, platform, alive, fdtab, stdoutMode, outbuf, fds0,
                   pipebuf, child, log>>

\* CloseHandle(h)
CloseHandle(tab, h) == CloseFd(tab, h)

\* lines 60-89: CreateProcessA succeeded. The child inherits the inheritable
\* handles and writes stdout and stderr to hWrite; the parent receives the
\* child's process and thread handles.
WCreateProcessOk(t, out) ==
    /\ alive /\ th[t].pc = "w_create"
    /\ Cardinality(FreeFds(fdtab)) >= 2
    /\ LET p == Len(child) + 1
           inherited == [fd \in Fds |-> IF fd \in inherit THEN fdtab[fd]
                                        ELSE NoFile]
           hp == LowestFree(fdtab)
           t1 == [fdtab EXCEPT ![hp] = PROC(p)]
           ht == LowestFree(t1)
       IN  /\ child' = Append(child,
                  [NewChild(t, inherited, "run") EXCEPT
                       !.outfd = th[t].wfd, !.execOk = TRUE, !.todo = out])
           /\ fdtab' = [t1 EXCEPT ![ht] = THR(p)]
           /\ th' = [th EXCEPT ![t].pc = "w_close_w", ![t].pid = p,
                               ![t].hproc = hp, ![t].hthr = ht]
    /\ UNCHANGED <<tk, platform, alive, inherit, stdoutMode, outbuf, fds0,
                   pipebuf, log>>

\* mutant of WCreateProcessFail: the read handle is not closed on the failure
\* path
WCreateProcessFail_LeaksRead(t) ==
    /\ alive /\ th[t].pc = "w_create"
    /\ fdtab' = CloseHandle(fdtab, th[t].wfd)
    /\ inherit' = inherit \ {th[t].wfd}
    /\ ReturnFrom(t, [th[t] EXCEPT !.closed = @ \o <<th[t].wfd>>], NullOpt)
    /\ UNCHANGED <<tk, platform, alive, stdoutMode, outbuf, fds0, pipebuf,
                   child>>

\* lines 72-88: CreateProcessA failed: both pipe handles are closed and the
\* call returns std::nullopt
WCreateProcessFail(t) ==
    /\ alive /\ th[t].pc = "w_create"
    /\ fdtab' = CloseHandle(CloseHandle(fdtab, th[t].wfd), th[t].rfd)
    /\ inherit' = inherit \ {th[t].wfd, th[t].rfd}
    /\ ReturnFrom(t, [th[t] EXCEPT !.closed = @ \o <<th[t].wfd, th[t].rfd>>],
                  NullOpt)
    /\ UNCHANGED <<tk, platform, alive, stdoutMode, outbuf, fds0, pipebuf,
                   child>>

\* one CloseHandle(h) of the success path, from program point `from` to `to`
WClose(t, h, from, to) ==
    /\ alive /\ th[t].pc = from
    /\ fdtab' = CloseHandle(fdtab, h)
    /\ inherit' = inherit \ {h}
    /\ th' = [th EXCEPT ![t].pc = to, ![t].closed = Append(@, h)]
    /\ UNCHANGED <<tk, platform, alive, stdoutMode, outbuf, fds0, pipebuf,
                   child, log>>

\* line 93: CloseHandle(hWrite)
WCloseWrite(t) == WClose(t, th[t].wfd, "w_close_w", "w_read")

\* lines 99-102: a ReadFile that returned bytes
WRead(t) == ReadChunk(t, "w_read")

\* line 99: the ReadFile that fails (broken pipe) or returns no byte
WReadEnd(t) ==
    /\ alive /\ th[t].pc = "w_read"
    /\ ReadOutcome(th[t].rfd) \in {"eof", "error"}
    /\ th' = [th EXCEPT ![t].pc = "w_close_r"]
    /\ UNCHANGED <<tk, platform, alive, fdtab, inherit, stdoutMode, outbuf,
                   fds0, pipebuf, child, log>>

\* line 105: CloseHandle(hRead)
WCloseRead(t) == WClose(t, th[t].rfd, "w_close_r", "w_wait")

\* line 106: WaitForSingleObject(piProcInfo.hProcess, INFINITE) returns once
\* this invocation's child has ended
WWait(t) ==
    /\ alive /\ th[t].pc = "w_wait"
    /\ child[th[t].pid].pc = "zombie"
    /\ th' = [th EXCEPT ![t].pc = "w_close_p", ![t].reaped = th[t].pid]
    /\ UNCHANGED <<tk, platform, alive, fdtab, inherit, stdoutMode, outbuf,
                   fds0, pipebuf, child, log>>

\* line 107: CloseHandle(piProcInfo.hProcess)
WCloseProcess(t) == WClose(t, th[t].hproc, "w_close_p", "w_close_t")

\* line 108: CloseHandle(piProcInfo.hThread)
WCloseThread(t) == WClose(t, th[t].hthr, "w_close_t", "w_return")

\* line 110: return ret
WReturn(t) ==
    /\ alive /\ th[t].pc = "w_return"
    /\ ReturnFrom(t, th[t], Some(th[t].ret))
    /\ UNCHANGED <<tk, platform, alive, fdtab, inherit, stdoutMode, outbuf,
                   fds0, pipebuf, child>>

(***************************************************************************)
(*                          THE WHOLE PROGRAM                              *)
(***************************************************************************)
\* The build chooses the platform (#ifdef _MSC_VER). On the fork path the
\* caller's stdout is fully or line buffered, and the caller may have closed
\* descriptor 0 and/or 1 before it calls command().
Init ==
    /\ tk = ScanInit(<<>>)
    /\ \/ \E mode \in {"full", "line"} : \E closed \in SUBSET {0, 1} :
             ProcInit("posix", mode, closed, OneThread)
       \/ ProcInit("win", "full", {}, OneThread)

Pids == 1 .. Len(child)

\* the steps of the fork path: the calling threads and the children
PosixNext ==
    \/ \E t \in Threads : \E cmd \in CmdStrings : Call(t, cmd)
    \/ \E t \in Threads : PipeOk(t)
    \/ \E t \in Threads : PipeFail(t)
    \/ \E t \in Threads : ForkOk(t)
    \/ \E t \in Threads : ForkFail(t)
    \/ \E t \in Threads : ParentCloseWrite(t)
    \/ \E t \in Threads : ParentRead(t)
    \/ \E t \in Threads : ParentReadEnd(t)
    \/ \E t \in Threads : ParentCloseRead(t)
    \/ \E t \in Threads : ParentWait(t)
    \/ \E t \in Threads : Return(t)
    \/ \E t \in Threads : CallerPrintf(t)
    \/ \E p \in Pids : ChildPuts(p)
    \/ \E p \in Pids : ChildCloseRead(p)
    \/ \E p \in Pids : ChildDup2(p)
    \/ \E p \in Pids : ChildCloseWrite(p)
    \/ \E p \in Pids : \E out \in Outputs : ChildExecOk(p, out)
    \/ \E p \in Pids : ChildExecFail(p)
    \/ \E p \in Pids : ChildExitFailure(p)

\* the steps of the CreateProcess path
WinNext ==
    \/ \E t \in Threads : \E cmd \in CmdStrings : WCall(t, cmd)
    \/ \E t \in Threads : WCreatePipeOk(t)
    \/ \E t \in Threads : WCreatePipeFail(t)
    \/ \E t \in Threads : WSetHandleInformation(t)
    \/ \E t \in Threads : \E out \in Outputs : WCreateProcessOk(t, out)
    \/ \E t \in Threads : WCreateProcessFail(t)
    \/ \E t \in Threads : WCloseWrite(t)
    \/ \E t \in Threads : WRead(t)
    \/ \E t \in Threads : WReadEnd(t)
    \/ \E t \in Threads : WCloseRead(t)
    \/ \E t \in Threads : WWait(t)
    \/ \E t \in Threads : WCloseProcess(t)
    \/ \E t \in Threads : WCloseThread(t)
    \/ \E t \in Threads : WReturn(t)

\* the steps of the program that runs in a child, on both paths
ProgramNext ==
    \/ \E p \in Pids : ChildWrite(p)
    \/ \E p \in Pids : ChildExit(p)

Next == PosixNext \/ WinNext \/ ProgramNext

Spec == Init /\ [][Next]_vars

\* Two threads of one process call command() at the same time (fork path,
\* descriptors 0 to 2 open).
ConcInit ==
    /\ tk = ScanInit(<<>>)
    /\ \E mode \in {"full", "line"} : ProcInit("posix", mode, {}, TwoThreads)

ConcNext == PosixNext \/ ProgramNext

SpecConc == ConcInit /\ [][ConcNext]_vars

\* the steps of _command() in the parent after fork(): each is a system call
\* that returns once it can, or plain code
ParentSteps(t) ==
    \/ ParentCloseWrite(t)
    \/ ParentRead(t)
    \/ ParentReadEnd(t)
    \/ ParentCloseRead(t)
    \/ ParentWait(t)
    \/ Return(t)

\* the steps of _command() in the child, up to execvp or exit
ChildSteps(p) ==
    \/ ChildPuts(p)
    \/ ChildCloseRead(p)
    \/ ChildDup2(p)
    \/ ChildCloseWrite(p)
    \/ ChildExecFail(p)
    \/ (\E out \in Outputs : ChildExecOk(p, out))
    \/ ChildExitFailure(p)

\* The fork path with one calling thread, under a scheduler that is fair to
\* the parent and to the child: a step of _command() that stays possible is
\* taken. At most one child of a single-threaded caller runs this program's
\* code at a time, so one fairness condition covers the children. Nothing is
\* assumed of the program the child becomes, which may run forever.
FairInit ==
    /\ tk = ScanInit(<<>>)
    /\ \E mode \in {"full", "line"} : \E closed \in SUBSET {0, 1} :
          ProcInit("posix", mode, closed, OneThread)

FairNext == PosixNext \/ ProgramNext

SpecFair ==
    /\ FairInit /\ [][FairNext]_vars
    /\ \A t \in OneThread : WF_vars(ParentSteps(t))
    /\ WF_vars(\E p \in Pids : ChildSteps(p))

(***************************************************************************)
(* The tokenizer alone: every command string up to MaxLen, scanned one     *)
(* loop iteration at a time.                                               *)
(***************************************************************************)
TokInit ==
    /\ tk \in {ScanInit(cmd) : cmd \in StringsOver(Alphabet, MaxLen)}
    /\ ProcInit("posix", "full", {}, OneThread)

TokStep ==
    /\ ~tk.done
    /\ tk' = ScanStep(tk)
    /\ UNCHANGED procVars

TokNext == TokStep

SpecTok == TokInit /\ [][TokNext]_vars

\* the loop is sequential code: while it has not reached its break, its next
\* iteration runs
SpecTokFair == SpecTok /\ WF_vars(TokStep)


(***************************************************************************)
(*                              CLAIMS                                     *)
(***************************************************************************)
\* the whitespace characters, as the claims use the word
SpaceChars == {" ", "\t", "\n", "\r", "\f"}

IsBlank(s) == \A i \in 1 .. Len(s) : s[i] \in SpaceChars

\* a span without its first and last character when both are double quotes
StripOuter(span) ==
    IF Len(span) >= 2 /\ span[1] = DQUOTE /\ span[Len(span)] = DQUOTE
    THEN SubSeq(span, 2, Len(span) - 1)
    ELSE span

\* position i of s is whitespace outside quotes: an even number of double
\* quotes precede it
UnquotedSpace(s, i) ==
    /\ s[i] \in SpaceChars
    /\ Cardinality({j \in 1 .. i - 1 : s[j] = DQUOTE}) % 2 = 0

\* the tokens of s when every double quote toggles the quote state: the
\* non-empty spans between unquoted whitespace, from position i on, each
\* without its enclosing quotes
RECURSIVE ToggleTokensFrom(_, _)
ToggleTokensFrom(s, i) ==
    IF i > Len(s) THEN <<>>
    ELSE IF UnquotedSpace(s, i) THEN ToggleTokensFrom(s, i + 1)
    ELSE LET ends == {j \in i .. Len(s) :
                         j = Len(s) \/ UnquotedSpace(s, j + 1)}
             e == CHOOSE j \in ends : \A m \in ends : j <= m
         IN  <<StripOuter(SubSeq(s, i, e))>> \o ToggleTokensFrom(s, e + 1)

\* C1: when the scan of a command string has ended, the tokens are those of
\* a tokenizer in which every double quote toggles the quote state: a quoted
\* text is one token without its quotes, and unquoted whitespace after the
\* closing quote ends the token.
C1_QuoteToggles == tk.done => tk.vec = ToggleTokensFrom(tk.cmd, 1)

\* the command strings of up to MaxBlank whitespace characters
BlankStrings == StringsOver({" ", "\t", "\n"}, MaxBlank)

BlankStringsHaveNoToken == \A s \in BlankStrings : Tokenize(s) = <<>>

\* C2: a command string that is empty or only whitespace tokenizes to no
\* token, and on the fork path command() then returns nullopt without having
\* created a pipe or forked a child: no invocation with such a string is ever
\* past the tokenizer.
C2_BlankCommandReturnsAbsent ==
    /\ BlankStringsHaveNoToken
    /\ platform = "posix" =>
         /\ \A t \in Threads : th[t].pc # "idle" => ~IsBlank(th[t].cmd)
         /\ \A i \in 1 .. Len(log) :
               IsBlank(log[i].cmd) =>
                  /\ log[i].argv = <<>>
                  /\ log[i].result = NullOpt
                  /\ log[i].pipe = 0
                  /\ log[i].pid = 0

\* C2 witness: a call with a whitespace-only command string has returned
\* while no pipe and no child exist
C2_Witness ==
    /\ platform = "posix"
    /\ \E i \in 1 .. Len(log) : log[i].cmd # <<>> /\ IsBlank(log[i].cmd)
    /\ pipebuf = <<>> /\ child = <<>>

\* the returned invocations of the fork path that forked a child
Launched == {i \in 1 .. Len(log) : platform = "posix" /\ log[i].pid # 0}

\* C3: when the child became the requested program, wrote B to its standard
\* output and exited, command() returns exactly B.
C3_ReturnsChildOutput ==
    \A i \in Launched :
       LET c == child[log[i].pid]
       IN  c.execOk /\ c.pc \in {"zombie", "reaped"}
              => log[i].result = Some(c.wrote)

\* C3, where it holds: with descriptors 0 and 1 not both closed at the call,
\* or with a fully buffered stdout, the result is exactly what the program
\* wrote.
C3_HoldsWithStdoutOpenOrFullyBuffered ==
    ({0, 1} \cap fds0 # {} \/ stdoutMode = "full") => C3_ReturnsChildOutput

\* C4: when execvp failed in the child, command() returns the empty string.
C4_ExecFailureReturnsEmpty ==
    \A i \in Launched :
       ~child[log[i].pid].execOk => log[i].result = Some(<<>>)

OpenFds == Fds \ FreeFds(fdtab)

\* C5: a returned invocation of the fork path has closed its two pipe
\* descriptors in the parent, each once (the write end, then the read end),
\* no descriptor of the calling process refers to its pipe any more, and
\* between invocations the open descriptors are those open before the first.
C5_NoDescriptorLeak ==
    platform = "posix" =>
       /\ \A i \in Launched :
             /\ log[i].closed = <<log[i].wfd, log[i].rfd>>
             /\ log[i].wfd # log[i].rfd
             /\ \A fd \in Fds : PipeOf(fdtab[fd]) # log[i].pipe
       /\ (\A t \in Threads : th[t].pc = "idle") => OpenFds = fds0

\* C5 witness: two invocations in a row have forked a child and returned
C5_Witness ==
    /\ Cardinality(Launched) >= 2
    /\ \A t \in Threads : th[t].pc = "idle"

\* C6: an invocation returns only after its own child has terminated, and
\* the child its wait() reaped is its own.
C6_WaitsForOwnChild ==
    \A i \in Launched :
       log[i].reaped = log[i].pid /\ log[i].childpc = "reaped"

\* C7: a pipe is held only by its invocation and that invocation's child.
\* So once the own child of an invocation has exited, no child holds the
\* write end of its pipe, and its read does not block: it returns the bytes
\* left in the pipe or end-of-stream, whatever other children still run.
C7_PipeOnlyInOwnChild ==
    \A t \in Threads :
       (th[t].pc = "read" /\ child[th[t].pid].pc \in {"zombie", "reaped"}) =>
          /\ \A p \in Pids : \A fd \in Fds :
                child[p].fdtab[fd] # WR(th[t].pipe)
          /\ ReadOutcome(th[t].rfd) # "block"

RECURSIVE RunsFrom(_, _)
RunsFrom(s, i) ==
    IF i > Len(s) THEN <<>>
    ELSE IF s[i] \in SpaceChars THEN RunsFrom(s, i + 1)
    ELSE LET ends == {j \in i .. Len(s) :
                         j = Len(s) \/ s[j + 1] \in SpaceChars}
             e == CHOOSE j \in ends : \A m \in ends : j <= m
         IN  <<SubSeq(s, i, e)>> \o RunsFrom(s, e + 1)

HasQuote(s) == \E i \in 1 .. Len(s) : s[i] = DQUOTE

\* C9: the tokens of a command string without a double quote are its
\* maximal runs of non-whitespace characters, in order; none is empty.
C9_TokensAreMaximalRuns ==
    (tk.done /\ ~HasQuote(tk.cmd)) =>
        /\ tk.vec = RunsFrom(tk.cmd, 1)
        /\ \A i \in 1 .. Len(tk.vec) : tk.vec[i] # <<>>

\* C9 witness: a scanned string without quotes that has two whitespace
\* characters in a row between two tokens, and leading whitespace
C9_Witness ==
    /\ tk.done /\ ~HasQuote(tk.cmd)
    /\ Len(tk.vec) = 2
    /\ \E i \in 2 .. Len(tk.cmd) - 1 :
          tk.cmd[i] \in SpaceChars /\ tk.cmd[i + 1] \in SpaceChars
    /\ tk.cmd[1] \in SpaceChars

\* the behaviour of the child of returned invocation i: none forked, exec
\* failed, or the bytes the program wrote
ChildBehaviour(i) ==
    IF log[i].pid = 0 THEN <<"none">>
    ELSE IF ~child[log[i].pid].execOk THEN <<"exec failed">>
    ELSE <<"ran", child[log[i].pid].wrote>>

\* C10: two invocations with the same command string whose children behave
\* the same return equal results.
C10_SameCommandSameResult ==
    \A i, j \in 1 .. Len(log) :
       (log[i].cmd = log[j].cmd /\ ChildBehaviour(i) = ChildBehaviour(j))
          => log[i].result = log[j].result

\* the child of thread t's invocation has ended while the parent has not yet
\* seen the end of the stream
ChildHasExited(t) ==
    /\ platform = "posix"
    /\ th[t].pc \in {"close_w", "read"}
    /\ child[th[t].pid].pc = "zombie"

\* in the read loop the parent holds no write end of its pipe: it closed
\* pipefd[1] before the first read; and from execvp on no descriptor of the
\* child other than its standard output refers to the write end
WriteEndOnlyAsChildStdout ==
    platform = "posix" =>
       /\ \A t \in Threads :
             /\ th[t].pc = "close_w" => th[t].ret = <<>>
             /\ th[t].pc = "read" =>
                   /\ th[t].closed = <<th[t].wfd>>
                   /\ \A fd \in Fds : fdtab[fd] # WR(th[t].pipe)
       /\ \A p \in Pids :
             child[p].pc \in {"execvp", "run", "exec_failed"} =>
                \A fd \in Fds :
                   child[p].fdtab[fd] = WR(child[p].pipe) => fd = STDOUT_FILENO

\* C11: in an invocation of a single-threaded caller the parent closes its
\* write end before its first read and the child holds the write end only as
\* its standard output; so, under a scheduler fair to parent and child, once
\* the child has exited the read loop ends and command() reaches its return.
C11_ReadLoopEndsAfterChildExit ==
    /\ []WriteEndOnlyAsChildStdout
    /\ \A t \in OneThread : ChildHasExited(t) ~> (th[t].pc = "return")

\* C11 witness: the invocation is at its return with more bytes than one
\* read delivers, its child reaped
C11_Witness ==
    \E t \in Threads :
       /\ platform = "posix" /\ th[t].pc = "return"
       /\ Len(th[t].ret) > ReadMax
       /\ child[th[t].pid].pc = "reaped"

\* a is the end of b
IsSuffix(a, b) ==
    Len(a) <= Len(b) /\ SubSeq(b, Len(b) - Len(a) + 1, Len(b)) = a

\* pipe k is at its end of stream: empty, and no write end of it is open
AtEndOfStream(k) == pipebuf[k] = <<>> /\ ~WriteEndOpen(k)

\* C12: on the fork path the read loop has ended only when its pipe was at
\* the end of the stream: past the loop the pipe is empty and no process holds
\* a write end of it, and a returned invocation's result ends with everything
\* its child's program wrote to its standard output.
C12_LoopEndsOnlyAtEndOfStream ==
    platform = "posix" =>
       /\ \A t \in Threads :
             th[t].pc \in {"close_r", "wait", "return"} =>
                AtEndOfStream(th[t].pipe)
       /\ \A i \in Launched :
             /\ AtEndOfStream(log[i].pipe)
             /\ log[i].result.present
             /\ IsSuffix(child[log[i].pid].wrote, log[i].result.text)

\* C12 witness: the loop has just ended after more than one read, and the
\* program in the child had written all of that
C12_Witness ==
    \E t \in Threads :
       /\ platform = "posix" /\ th[t].pc = "close_r"
       /\ Len(th[t].ret) > ReadMax
       /\ child[th[t].pid].wrote = th[t].ret

\* the program points of the child branch, and the order the code passes
\* them in
ChildOrder ==
    {<<"puts", "close_r">>, <<"close_r", "dup2">>, <<"dup2", "close_w">>,
     <<"close_w", "execvp">>, <<"execvp", "run">>, <<"execvp", "exec_failed">>,
     <<"exec_failed", "zombie">>, <<"run", "zombie">>, <<"zombie", "reaped">>}

\* what the child has done at each of its program points: read end closed
\* from dup2 on, standard output the write end once dup2 has run, the
\* original write-end descriptor closed at execvp; it ends as the requested
\* program or with status EXIT_FAILURE
ChildBranchState(c) ==
    /\ c.pc \in {"dup2", "close_w", "execvp", "exec_failed"} =>
          \A fd \in Fds : c.fdtab[fd] # RD(c.pipe)
    /\ c.pc = "close_w" => c.fdtab[STDOUT_FILENO] = WR(c.pipe)
    /\ c.pc \in {"execvp", "exec_failed"} => c.fdtab[c.wfd] = NoFile
    /\ c.pc \in {"puts", "close_r", "dup2", "close_w", "execvp",
                  "exec_failed"} => ~c.execOk /\ c.status = <<>>
    /\ c.pc = "run" => c.execOk
    /\ c.pc \in {"zombie", "reaped"} =>
          IF c.execOk THEN c.status = <<>>
          ELSE c.status = <<EXIT_FAILURE>> /\ EXIT_FAILURE # 0

\* every returned invocation was returned once, by the thread that called
EachInvocationReturnsOnce ==
    /\ \A i \in 1 .. Len(log) : log[i].thr \in Threads
    /\ \A i, j \in Launched : log[i].pid = log[j].pid => i = j
    /\ Len(log) + Cardinality({t \in Threads : th[t].pc # "idle"}) <= MaxCalls

\* C13: the child of the fork path passes close read end, dup2, close write
\* end, execvp in this order, then is the requested program or exits with a
\* non-zero status; it never returns from _command(), so each invocation
\* returns once, in the parent.
C13_ChildExecsOrExits ==
    /\ [](platform = "posix" =>
            /\ \A p \in Pids : ChildBranchState(child[p])
            /\ EachInvocationReturnsOnce)
    /\ [][\A p \in Pids :
             child'[p].pc # child[p].pc =>
                <<child[p].pc, child'[p].pc>> \in ChildOrder]_vars

\* C13 witness: of two children that have ended, one became the program and
\* the other exited after a failed execvp, and both invocations returned
C13_Witness ==
    /\ platform = "posix" /\ Cardinality(Launched) = 2
    /\ \E p, q \in Pids :
          /\ child[p].pc = "reaped" /\ child[p].execOk
          /\ child[q].pc = "reaped" /\ child[q].status = <<EXIT_FAILURE>>

\* thread t's invocation has ended the calling process: pipe() or fork()
\* had failed
ExitedIn(t) == th[t].pc = "exit_failure"

ParentOrder ==
    {<<"idle", "pipe">>, <<"pipe", "fork">>, <<"pipe", "exit_failure">>,
     <<"fork", "close_w">>, <<"fork", "exit_failure">>, <<"close_w", "read">>,
     <<"read", "close_r">>, <<"close_r", "wait">>, <<"wait", "return">>,
     <<"return", "idle">>}

\* C15: with one calling thread on the fork path, each invocation with
\* arguments forks exactly one child; the parent reads to the end of the
\* stream, then closes the read end, then waits; at the return its child has
\* terminated and been reaped, and between invocations the process has no
\* child left.
C15_OneChildReapedBeforeReturn ==
    /\ [](platform = "posix" =>
            /\ Len(child) = Cardinality(Launched)
                               + Cardinality({t \in Threads : th[t].pid # 0})
            /\ \A i \in 1 .. Len(log) :
                  IF log[i].argv = <<>> THEN log[i].pid = 0
                  ELSE /\ log[i].pid \in Pids
                       /\ \A j \in 1 .. Len(log) :
                             log[j].pid = log[i].pid => j = i
                       /\ log[i].reaped = log[i].pid
                       /\ log[i].childpc = "reaped"
                       /\ log[i].closed = <<log[i].wfd, log[i].rfd>>
            /\ \A t \in Threads :
                  /\ th[t].pc = "wait" =>
                        /\ AtEndOfStream(th[t].pipe)
                        /\ th[t].closed = <<th[t].wfd, th[t].rfd>>
                        /\ th[t].reaped = 0
                  /\ th[t].pc = "return" =>
                        /\ th[t].reaped = th[t].pid
                        /\ child[th[t].pid].pc = "reaped"
                  /\ th[t].pc = "idle" => Unreaped = {})
    /\ [][platform = "posix" =>
             \A t \in OneThread :
                th'[t].pc # th[t].pc =>
                   <<th[t].pc, th'[t].pc>> \in ParentOrder]_vars

\* C15 witness: two invocations in a row have returned, each with a child
\* of its own, both reaped
C15_Witness ==
    /\ platform = "posix" /\ Len(log) = 2 /\ Len(child) = 2
    /\ log[1].reaped = 1 /\ log[2].reaped = 2
    /\ Unreaped = {}

\* the loop iteration from the current state emits a token
Emits == ~tk.done /\ Len(ScanStep(tk).vec) > Len(tk.vec)

\* the positions (from 1) in the command string of the first and the last
\* character of the token being emitted; first > last for an empty token
TokenFirst ==
    IF HasOuterQuotes(tk.cmd, tk.left, tk.ptr) THEN tk.left + 2
    ELSE tk.left + 1

TokenLast ==
    IF HasOuterQuotes(tk.cmd, tk.left, tk.ptr) THEN tk.ptr - 1 ELSE tk.ptr

\* C16: no token begins or ends with unquoted whitespace, a whitespace
\* character being unquoted when an even number of double quotes precede it
\* in the command string.
C16_NoUnquotedSpaceAtTokenEnds ==
    (Emits /\ TokenFirst <= TokenLast) =>
        /\ ~UnquotedSpace(tk.cmd, TokenFirst)
        /\ ~UnquotedSpace(tk.cmd, TokenLast)

\* the raw span of the token being emitted: the characters from left up to
\* ptr
RawSpan == SubSeq(tk.cmd, tk.left + 1, tk.ptr)

\* C17: every emitted token is its raw span without its first and last
\* character when the span has at least two characters and both are double
\* quotes, and the raw span unchanged otherwise; double quotes elsewhere in
\* the span are kept. Nothing else of the token sequence changes.
C17_OuterQuotesStripped ==
    [][Len(tk'.vec) # Len(tk.vec) =>
          /\ RawSpan # <<>>
          /\ tk'.vec = Append(tk.vec, StripOuter(RawSpan))]_vars

\* C17 witness: the scan of `"a"b"` has ended with one token, the span
\* without its two outer quotes and with its inner one
C17_Witness ==
    /\ tk.done
    /\ tk.cmd = <<DQUOTE, "a", DQUOTE, "b", DQUOTE>>
    /\ tk.vec = << <<"a", DQUOTE, "b">> >>

\* the command string `echo "abc`
EchoUnterminated == <<"e", "c", "h", "o", " ", DQUOTE, "a", "b", "c">>

\* its tokens are echo and `"abc`
EchoUnterminatedTokens ==
    Tokenize(EchoUnterminated)
       = << <<"e", "c", "h", "o">>, <<DQUOTE, "a", "b", "c">> >>

\* the scan position stays inside the string, and the loop can always take
\* its next iteration until it has reached its break
ScanInRange ==
    /\ 0 <= tk.left /\ tk.left <= tk.ptr /\ tk.ptr <= Len(tk.cmd)
    /\ ~tk.done => ENABLED TokStep

\* C18: the scan loop terminates for every command string: the scan position
\* strictly advances on every iteration that does not end the loop and never
\* passes the end of the string, and the loop reaches its break. The
\* iteration that ends the loop is the one at the end of the string, and it
\* emits the trailing span when that is not empty, also when a quote is left
\* open: `echo "abc` gives echo and `"abc`.
C18_ScanTerminates ==
    /\ [](ScanInRange /\ EchoUnterminatedTokens)
    /\ [][IF tk'.done
          THEN /\ tk.ptr = Len(tk.cmd)
               /\ tk'.vec = IF RawSpan # <<>>
                             THEN Append(tk.vec, StripOuter(RawSpan))
                             ELSE tk.vec
          ELSE tk'.ptr > tk.ptr]_vars
    /\ <>tk.done

\* C18 witness: the scan of a string with one double quote, never closed,
\* has ended with two tokens, the last one the span from the quote on
C18_Witness ==
    /\ tk.done
    /\ Cardinality({i \in 1 .. Len(tk.cmd) : tk.cmd[i] = DQUOTE}) = 1
    /\ Len(tk.vec) = 2
    /\ tk.vec[2][1] = DQUOTE /\ Len(tk.vec[2]) > 1

\* the handles an invocation with locals l has obtained: the two of its pipe
\* and, once the process is created, the child's process and thread handles
Obtained(l) ==
    (IF l.pipe = 0 THEN {} ELSE {l.rfd, l.wfd})
       \cup (IF l.pid = 0 THEN {} ELSE {l.hproc, l.hthr})

\* the handles of q are different from each other
NoRepeat(q) == \A i, j \in 1 .. Len(q) : q[i] = q[j] => i = j

\* handle h of the calling process refers to something of the invocation
\* with locals l
RefersTo(h, l) ==
    \/ l.pipe # 0 /\ fdtab[h] \in {RD(l.pipe), WR(l.pipe)}
    \/ l.pid # 0 /\ fdtab[h] \in {PROC(l.pid), THR(l.pid)}

\* C19: on the CreateProcess path every returned invocation has closed each
\* handle it obtained, once: none when CreatePipe failed, hWrite and hRead
\* when CreateProcess failed, and on success hWrite (before the first read),
\* hRead (after the read loop), then, after the wait, the process and the
\* thread handle.
C19_HandlesClosedOnce ==
    platform = "win" =>
       /\ \A i \in 1 .. Len(log) :
             LET l == log[i]
             IN  /\ NoRepeat(l.closed)
                 /\ {l.closed[j] : j \in 1 .. Len(l.closed)} = Obtained(l)
                 /\ \A h \in Fds : ~RefersTo(h, l)
                 /\ l.closed = IF l.pipe = 0 THEN <<>>
                                ELSE IF l.pid = 0 THEN <<l.wfd, l.rfd>>
                                ELSE <<l.wfd, l.rfd, l.hproc, l.hthr>>
                 /\ l.result.present <=> l.pid # 0
                 /\ l.pid # 0 => l.reaped = l.pid
       /\ \A t \in Threads :
             /\ th[t].pc = "w_close_w" => th[t].ret = <<>>
             /\ th[t].pc = "w_read" => th[t].closed = <<th[t].wfd>>
             /\ th[t].pc = "w_close_r" =>
                   /\ th[t].closed = <<th[t].wfd>>
                   /\ ReadOutcome(th[t].rfd) \in {"eof", "error"}
             /\ th[t].pc = "w_wait" =>
                   th[t].closed = <<th[t].wfd, th[t].rfd>> /\ th[t].reaped = 0
             /\ th[t].pc = "w_close_p" =>
                   /\ th[t].closed = <<th[t].wfd, th[t].rfd>>
                   /\ child[th[t].pid].pc = "zombie"
             /\ th[t].pc = "idle" => OpenFds = fds0

\* C19 witness: of two invocations that returned, one closed its two pipe
\* handles after CreateProcess had failed and one closed its four handles
C19_Witness ==
    /\ platform = "win" /\ Len(log) = 2
    /\ \E i, j \in 1 .. 2 :
          /\ Len(log[i].closed) = 2 /\ ~log[i].result.present
          /\ Len(log[j].closed) = 4 /\ log[j].result.present

\* C20: when the child calls execvp its descriptor 1 is the write end of
\* its invocation's pipe and no other descriptor of the child refers to an
\* end of that pipe, whatever descriptors pipe() returned.
C20_StdoutIsPipeAtExec ==
    platform = "posix" =>
       \A p \in Pids :
          child[p].pc = "execvp" =>
             /\ child[p].fdtab[STDOUT_FILENO] = WR(child[p].pipe)
             /\ \A fd \in Fds \ {STDOUT_FILENO} :
                   child[p].fdtab[fd] \notin
                      {RD(child[p].pipe), WR(child[p].pipe)}

\* C20, where it holds: when pipe() did not return descriptor 1 as the
\* write end
C20_HoldsUnlessWriteEndIsStdout ==
    (\A p \in Pids : child[p].wfd # STDOUT_FILENO) => C20_StdoutIsPipeAtExec

=============================================================================
